---- MODULE Spec2Model ----
(***************************************************************************)
(* The HTML reduction pipeline clean_html_for_llm of the style-changer     *)
(* server, in its three copies (server-claude.py, server-or.py and         *)
(* style_changer_common.py).                                               *)
(*                                                                         *)
(* Strings are sequences of chunks: a chunk is an atomic piece of text     *)
(* ("javascript:", "[sanitized", "data-", ...), so that the substring and  *)
(* prefix tests of the code are computed on the sequence.  An HTML string  *)
(* is a sequence of lexical tokens (open tag, close tag, text, comment).   *)
(* The parsed tree (the soup) is the sequence of its nodes in document     *)
(* order, each with its depth: the subtree of a node is the run of nodes   *)
(* that follow it with a greater depth.                                    *)
(***************************************************************************)
EXTENDS Integers, Sequences, FiniteSets, TLC

(***************************************************************************)
(* Strings                                                                 *)
(***************************************************************************)

\* str.lower() / the lower-casing of names by the HTML parser, per chunk.
LowerChunk(c) ==
    CASE c = "Tooltip" -> "tooltip"
      [] c = "LOADING" -> "loading"
      [] c = "trackingParams" -> "trackingparams"
      [] c = "JavaScript:" -> "javascript:"
      [] c = "DIV" -> "div"
      [] c = "A" -> "a"
      [] OTHER -> c

Lower(s) == SubSeq([i \in 1..Len(s) |-> LowerChunk(s[i])], 1, Len(s))

\* `p in s` and re.search(p, s): p occurs in s as a contiguous piece.
HasSub(s, p) ==
    \E i \in 1..(Len(s) - Len(p) + 1) : SubSeq(s, i, i + Len(p) - 1) = p

\* s.startswith(p)
StartsWith(s, p) == Len(s) >= Len(p) /\ SubSeq(s, 1, Len(p)) = p

\* s.strip() is empty: the text is made of white space only.
IsBlank(s) == \A i \in 1..Len(s) : s[i] = " "

\* Faulty variant of SearchIgnoreCase: re.compile(pattern) without re.IGNORECASE.
SearchCaseSensitive(pattern, value) == HasSub(value, pattern)

\* re.compile(pattern, re.IGNORECASE).search(value)
SearchIgnoreCase(pattern, value) == HasSub(Lower(value), Lower(pattern))

NoAttrs == [a \in {} |-> <<>>]

(***************************************************************************)
(* Tokens and nodes                                                        *)
(***************************************************************************)

OpenTok(name, attrs) == [k |-> "open", name |-> name, attrs |-> attrs, s |-> <<>>]
CloseTok(name) == [k |-> "close", name |-> name, attrs |-> NoAttrs, s |-> <<>>]
TextTok(s) == [k |-> "text", name |-> "", attrs |-> NoAttrs, s |-> s]
CommentTok(s) == [k |-> "comment", name |-> "", attrs |-> NoAttrs, s |-> s]

Node(id, k, name, attrs, s, d) ==
    [id |-> id, k |-> k, name |-> name, attrs |-> attrs, s |-> s, d |-> d]

IsTag(n) == n.k = "tag"

\* Position of the node with identity id in tree t, 0 when it is not in t.
IndexOf(t, id) ==
    IF \E i \in 1..Len(t) : t[i].id = id
    THEN CHOOSE i \in 1..Len(t) : t[i].id = id
    ELSE 0

\* Last position of the subtree rooted at position i.
SubEnd(t, i) ==
    CHOOSE j \in i..Len(t) :
        /\ \A m \in (i + 1)..j : t[m].d > t[i].d
        /\ (j = Len(t) \/ t[j + 1].d <= t[i].d)

RemoveSlice(t, a, b) == SubSeq(t, 1, a - 1) \o SubSeq(t, b + 1, Len(t))

\* Positions of the children (tag.contents) of the node at position i.
ChildPositions(t, i) == {m \in (i + 1)..SubEnd(t, i) : t[m].d = t[i].d + 1}

Ids(t) == {t[i].id : i \in 1..Len(t)}

(***************************************************************************)
(* str(soup): the tree rendered as the tokens of the string it gives.      *)
(* open holds the names of the elements that are open at position i,       *)
(* innermost last.                                                         *)
(***************************************************************************)

RECURSIVE CloseAll(_)
CloseAll(open) ==
    IF open = <<>> THEN <<>>
    ELSE <<CloseTok(open[Len(open)])>> \o CloseAll(SubSeq(open, 1, Len(open) - 1))

RECURSIVE Decode(_, _, _)
Decode(t, i, open) ==
    IF i > Len(t) THEN CloseAll(open)
    ELSE IF Len(open) > t[i].d
    THEN <<CloseTok(open[Len(open)])>> \o Decode(t, i, SubSeq(open, 1, Len(open) - 1))
    ELSE IF t[i].k = "tag"
    THEN <<OpenTok(t[i].name, t[i].attrs)>> \o Decode(t, i + 1, Append(open, t[i].name))
    ELSE IF t[i].k = "comment"
    THEN <<CommentTok(t[i].s)>> \o Decode(t, i + 1, open)
    ELSE <<TextTok(t[i].s)>> \o Decode(t, i + 1, open)

\* Text that follows text is one run of characters in the string.
RECURSIVE JoinText(_, _)
JoinText(toks, i) ==
    IF i > Len(toks) THEN <<>>
    ELSE IF i < Len(toks) /\ toks[i].k = "text" /\ toks[i + 1].k = "text"
    THEN JoinText([toks EXCEPT ![i + 1] = TextTok(toks[i].s \o toks[i + 1].s)], i + 1)
    ELSE <<toks[i]>> \o JoinText(toks, i + 1)

Serialize(t) == JoinText(Decode(t, 1, <<>>), 1)

(***************************************************************************)
(* BeautifulSoup(html_content, 'lxml'): tokens to tree.  The parser lower- *)
(* cases tag and attribute names, joins adjacent text into one node,       *)
(* ignores a close tag that closes nothing, closes what is left open at    *)
(* the end, and puts a fragment into an html/body skeleton.                *)
(***************************************************************************)

LowerAttrs(attrs) ==
    [a \in {Lower(x) : x \in DOMAIN attrs} |->
        attrs[CHOOSE x \in DOMAIN attrs : Lower(x) = a]]

\* The open elements after a close tag for name: popped down to the innermost
\* open element of that name; unchanged when no such element is open.
PopTo(open, name) ==
    IF \E j \in 1..Len(open) : open[j] = name
    THEN LET j == CHOOSE j \in 1..Len(open) :
                      open[j] = name /\ \A m \in (j + 1)..Len(open) : open[m] # name
         IN SubSeq(open, 1, j - 1)
    ELSE open

RECURSIVE Feed(_, _, _, _)
Feed(toks, i, t, open) ==
    IF i > Len(toks) THEN t
    ELSE LET tok == toks[i]
             d == Len(open)
         IN CASE tok.k = "open" ->
                   Feed(toks, i + 1,
                        Append(t, Node(0, "tag", LowerChunk(tok.name),
                                       LowerAttrs(tok.attrs), <<>>, d)),
                        Append(open, LowerChunk(tok.name)))
              [] tok.k = "close" ->
                   Feed(toks, i + 1, t, PopTo(open, LowerChunk(tok.name)))
              [] tok.k = "comment" ->
                   Feed(toks, i + 1, Append(t, Node(0, "comment", "", NoAttrs, tok.s, d)), open)
              [] OTHER ->
                   IF tok.s = <<>> THEN Feed(toks, i + 1, t, open)
                   ELSE IF t # <<>> /\ t[Len(t)].k = "text" /\ t[Len(t)].d = d
                   THEN Feed(toks, i + 1,
                             [t EXCEPT ![Len(t)].s = t[Len(t)].s \o tok.s], open)
                   ELSE Feed(toks, i + 1, Append(t, Node(0, "text", "", NoAttrs, tok.s, d)), open)

\* The document skeleton the lxml builder puts around a fragment.
Skeleton(t) ==
    IF t # <<>> /\ t[1].k = "tag" /\ t[1].name = "html" /\ SubEnd(t, 1) = Len(t)
    THEN t
    ELSE <<Node(0, "tag", "html", NoAttrs, <<>>, 0), Node(0, "tag", "body", NoAttrs, <<>>, 1)>>
         \o SubSeq([i \in 1..Len(t) |-> [t[i] EXCEPT !.d = t[i].d + 2]], 1, Len(t))

\* Every node of the parsed tree is an object of its own: its identity is
\* its position in the tree as parsed.
Parse(toks) ==
    LET t == Skeleton(Feed(toks, 1, <<>>, <<>>))
    IN SubSeq([i \in 1..Len(t) |-> [t[i] EXCEPT !.id = i]], 1, Len(t))

(***************************************************************************)
(* Tree operations of BeautifulSoup used by the passes                     *)
(***************************************************************************)

\* soup.find_all(...): the identities of the matching nodes (a SelectSeq of
\* the tree), in document order, collected before the loop body runs.
FindAll(matching) ==
    SubSeq([i \in 1..Len(matching) |-> matching[i].id], 1, Len(matching))

\* tag.decompose() / comment.extract(): the node and its subtree leave the
\* tree; on a node that already left the tree nothing changes.
Decompose(t, id) ==
    LET i == IndexOf(t, id)
    IN IF i = 0 THEN t ELSE RemoveSlice(t, i, SubEnd(t, i))

\* tag.clear(): the children leave the tree, the tag stays.
Clear(t, id) ==
    LET i == IndexOf(t, id)
    IN IF i = 0 THEN t ELSE RemoveSlice(t, i + 1, SubEnd(t, i))

\* for x in <result list>: x.decompose()
RECURSIVE DecomposeEach(_, _)
DecomposeEach(t, ids) ==
    IF ids = <<>> THEN t
    ELSE DecomposeEach(Decompose(t, Head(ids)), Tail(ids))

RECURSIVE ClearEach(_, _)
ClearEach(t, ids) ==
    IF ids = <<>> THEN t
    ELSE ClearEach(Clear(t, Head(ids)), Tail(ids))

NoString == <<>>

\* tag.string: the single string below the tag, through single-child
\* elements; None (NoString) when some tag on the way has not exactly one
\* child.
RECURSIVE StringOf(_, _)
StringOf(t, i) ==
    LET kids == ChildPositions(t, i)
    IN IF Cardinality(kids) # 1 THEN NoString
       ELSE LET c == CHOOSE c \in kids : TRUE
            IN IF IsTag(t[c]) THEN StringOf(t, c) ELSE t[c].s

(***************************************************************************)
(* The passes of clean_html_for_llm                                        *)
(***************************************************************************)

RemovedTags == {"script", "style", "meta", "link"}

\* Faulty variant of RemoveTags: soup.find(...) instead of find_all, so that only the
\* first match is decomposed.
RemoveTagsFirstOnly(t) ==
    LET ids == FindAll(SelectSeq(t, LAMBDA n : IsTag(n) /\ n.name \in RemovedTags))
    IN IF ids = <<>> THEN t ELSE Decompose(t, Head(ids))

\* Faulty variant of RemoveTags: tag.clear() instead of tag.decompose().
RemoveTagsClear(t) ==
    ClearEach(t, FindAll(SelectSeq(t, LAMBDA n : IsTag(n) /\ n.name \in RemovedTags)))

\* 1. Remove <script>, <style>, <meta>, <link> tags
RemoveTags(t) ==
    DecomposeEach(t, FindAll(SelectSeq(t, LAMBDA n : IsTag(n) /\ n.name \in RemovedTags)))

\* Faulty variant of RemoveComments: find_all(..., recursive=False), which looks at
\* the children of the soup object only.
RemoveCommentsTopLevel(t) ==
    DecomposeEach(t, FindAll(SelectSeq(t, LAMBDA n : n.k = "comment" /\ n.d = 0)))

\* 2. Remove comments
RemoveComments(t) ==
    DecomposeEach(t, FindAll(SelectSeq(t, LAMBDA n : n.k = "comment")))

\* Faulty variant of ClearSvg: svg.decompose() instead of svg.clear().
ClearSvgDecompose(t) ==
    DecomposeEach(t, FindAll(SelectSeq(t, LAMBDA n : IsTag(n) /\ n.name = "svg")))

\* 3. Clean SVG content (keep SVG tag but remove its children)
ClearSvg(t) ==
    ClearEach(t, FindAll(SelectSeq(t, LAMBDA n : IsTag(n) /\ n.name = "svg")))

\* Faulty variant of RemoveHiddenAttr: the test tag.get('hidden'), false for the
\* empty value of a bare hidden attribute.
RemoveHiddenAttrNonEmpty(t) ==
    DecomposeEach(t, FindAll(SelectSeq(t, LAMBDA n : /\ IsTag(n)
                                           /\ <<"hidden">> \in DOMAIN n.attrs
                                           /\ n.attrs[<<"hidden">>] # <<>>)))

\* Faulty variant of RemoveHiddenAttr: soup.find(...) instead of find_all, so
\* that only the first match is decomposed.
RemoveHiddenAttrFirstOnly(t) ==
    LET ids == FindAll(SelectSeq(t, LAMBDA n : IsTag(n) /\ <<"hidden">> \in DOMAIN n.attrs))
    IN IF ids = <<>> THEN t ELSE Decompose(t, Head(ids))

\* 4.1 Elements with hidden attribute (any value)
RemoveHiddenAttr(t) ==
    DecomposeEach(t, FindAll(SelectSeq(t, LAMBDA n : IsTag(n) /\ <<"hidden">> \in DOMAIN n.attrs)))

non_visible_patterns ==
    << <<"spinner">>, <<"tooltip">>, <<"skeleton">>, <<"loading">>, <<"hidden">>,
       <<"invisible">>, <<"offscreen">>, <<"visually-", "hidden">> >>

\* find_all(class_=re.compile(pattern, re.IGNORECASE)); the class value is the
\* whole attribute string (no pattern holds a space, so searching the whole
\* string and searching each class give the same matches).
ClassMatches(n, pattern) ==
    /\ IsTag(n)
    /\ <<"class">> \in DOMAIN n.attrs
    /\ SearchIgnoreCase(pattern, n.attrs[<<"class">>])

\* find_all(id=re.compile(pattern, re.IGNORECASE))
IdMatches(n, pattern) ==
    /\ IsTag(n)
    /\ <<"id">> \in DOMAIN n.attrs
    /\ SearchIgnoreCase(pattern, n.attrs[<<"id">>])

\* 4.2 for pattern in non_visible_patterns: by class, then by id
RECURSIVE RemoveByPatterns(_, _)
RemoveByPatterns(t, patterns) ==
    IF patterns = <<>> THEN t
    ELSE LET p == Head(patterns)
             t1 == DecomposeEach(t, FindAll(SelectSeq(t, LAMBDA n : ClassMatches(n, p))))
             t2 == DecomposeEach(t1, FindAll(SelectSeq(t1, LAMBDA n : IdMatches(n, p))))
         IN RemoveByPatterns(t2, Tail(patterns))

RemoveNonVisible(t) == RemoveByPatterns(t, non_visible_patterns)

youtube_non_visible ==
    <<"tp-yt-paper-spinner-lite", "tp-yt-paper-tooltip", "ytd-popup-container",
      "ytd-miniplayer">>

\* 4.3 for elem_type in youtube_non_visible: find_all(elem_type), decompose
RECURSIVE RemoveByNames(_, _)
RemoveByNames(t, names) ==
    IF names = <<>> THEN t
    ELSE RemoveByNames(
             DecomposeEach(t, FindAll(SelectSeq(t, LAMBDA n : IsTag(n) /\ n.name = Head(names)))),
             Tail(names))

RemoveYoutube(t) == RemoveByNames(t, youtube_non_visible)

Variants == {"claude", "or", "common"}

TrackingAttributes ==
    { <<"itemprop">>, <<"itemscope">>, <<"itemtype">>, <<"trackingParams">>,
      <<"nonce">>, <<"jslog">>, <<"ved">>, <<"ftl-eligible">>,
      <<"notify-on-loaded">>, <<"notify-on-unloaded">> }

AccessibilityAttributes ==
    { <<"role">>, <<"aria-", "label">>, <<"aria-", "labelledby">>, <<"aria-", "hidden">>,
      <<"aria-", "expanded">>, <<"aria-", "haspopup">>, <<"aria-", "controls">>,
      <<"aria-", "checked">>, <<"aria-", "selected">>, <<"aria-", "current">>,
      <<"aria-", "disabled">>, <<"aria-", "describedby">> }

\* Faulty variant of attributes_to_remove: the list of server-claude.py in every file.
attributes_to_remove_strict(variant) == TrackingAttributes \cup AccessibilityAttributes

\* 5. attributes_to_remove, as each file writes it
attributes_to_remove(variant) ==
    IF variant = "claude"
    THEN TrackingAttributes \cup AccessibilityAttributes
    ELSE TrackingAttributes

\* Faulty variant of AttrRemoved: the test on attributes_to_remove left out.
AttrRemovedDataOnly(attr, variant) == StartsWith(attr, <<"data-">>)

\* attr.startswith('data-') or attr in attributes_to_remove
AttrRemoved(attr, variant) ==
    StartsWith(attr, <<"data-">>) \/ attr \in attributes_to_remove(variant)

\* Faulty variant of AttrRewritten: src left out of the list.
AttrRewrittenHrefOnly(attr, value) ==
    /\ attr = <<"href">>
    /\ value # <<>>
    /\ (HasSub(value, <<"[sanitized">>) \/ HasSub(value, <<"javascript:">>))

\* attr in ['href', 'src'] and attrs_copy[attr] and
\* ('[sanitized' in attrs_copy[attr] or 'javascript:' in attrs_copy[attr])
AttrRewritten(attr, value) ==
    /\ attr \in {<<"href">>, <<"src">>}
    /\ value # <<>>
    /\ (HasSub(value, <<"[sanitized">>) \/ HasSub(value, <<"javascript:">>))

\* 6. The loop over attrs_copy of one tag: del tag[attr], then tag[attr] = '#'
CleanAttrs(attrs_copy, variant) ==
    [attr \in {a \in DOMAIN attrs_copy :
                  ~AttrRemoved(a, variant) \/ AttrRewritten(a, attrs_copy[a])} |->
        IF AttrRewritten(attr, attrs_copy[attr]) THEN <<"#">> ELSE attrs_copy[attr]]

\* for tag in soup.find_all(True)
StripAttrs(t, variant) ==
    SubSeq([i \in 1..Len(t) |->
               IF IsTag(t[i]) THEN [t[i] EXCEPT !.attrs = CleanAttrs(t[i].attrs, variant)]
               ELSE t[i]],
           1, Len(t))

\* Faulty variant of Collapsible: the test not div.attrs left out.
CollapsibleIgnoreAttrs(t, i) ==
    /\ (StringOf(t, i) = NoString \/ IsBlank(StringOf(t, i)))
    /\ ~\E m \in (i + 1)..SubEnd(t, i) : IsTag(t[m])

\* not div.attrs and (not div.string or not div.string.strip())
\*   and not div.find_all(True)
Collapsible(t, i) ==
    /\ DOMAIN t[i].attrs = {}
    /\ (StringOf(t, i) = NoString \/ IsBlank(StringOf(t, i)))
    /\ ~\E m \in (i + 1)..SubEnd(t, i) : IsTag(t[m])

\* 7. for div in soup.find_all('div'): each div of the list is tested against
\* the tree as it is when its turn comes.
RECURSIVE CollapseEach(_, _)
CollapseEach(t, ids) ==
    IF ids = <<>> THEN t
    ELSE LET i == IndexOf(t, Head(ids))
         IN CollapseEach(IF i # 0 /\ Collapsible(t, i) THEN Decompose(t, Head(ids)) ELSE t,
                         Tail(ids))

\* Faulty variant of CollapseDivs: the loop stops after the first div of its
\* list.
CollapseDivsFirstOnly(t) ==
    LET divs == FindAll(SelectSeq(t, LAMBDA n : IsTag(n) /\ n.name = "div"))
    IN CollapseEach(t, IF divs = <<>> THEN divs ELSE <<Head(divs)>>)

CollapseDivs(t) ==
    CollapseEach(t, FindAll(SelectSeq(t, LAMBDA n : IsTag(n) /\ n.name = "div")))

Passes ==
    <<"tags", "comments", "svg", "hidden", "patterns", "youtube", "attrs", "divs">>

ApplyPass(name, t, variant) ==
    CASE name = "tags" -> RemoveTags(t)
      [] name = "comments" -> RemoveComments(t)
      [] name = "svg" -> ClearSvg(t)
      [] name = "hidden" -> RemoveHiddenAttr(t)
      [] name = "patterns" -> RemoveNonVisible(t)
      [] name = "youtube" -> RemoveYoutube(t)
      [] name = "attrs" -> StripAttrs(t, variant)
      [] OTHER -> CollapseDivs(t)

\* The soup as parsed and after each pass in turn: trail[n + 1] is the tree
\* after the first n passes.
RECURSIVE RunPasses(_, _, _)
RunPasses(t, n, variant) ==
    IF n = 0 THEN <<t>>
    ELSE LET trail == RunPasses(t, n - 1, variant)
         IN Append(trail, ApplyPass(Passes[n], trail[n], variant))

CleanTrail(html_content, variant) ==
    IF html_content = <<>> THEN <<>>
    ELSE RunPasses(Parse(html_content), Len(Passes), variant)

\* Faulty variant of OnException: the except branch returns str(soup).
OnExceptionPartial(html_content, partial) == Serialize(partial)

\* except Exception: return html_content.  partial is the soup at the raise.
OnException(html_content, partial) == html_content

NoFault == Len(Passes) + 1

\* What the call returns, given the trail of its soup.  fault is the number
\* of passes that ran before an exception was raised inside the try block
\* (0: raised by the parser or by the first pass), NoFault when none is
\* raised.  The soup as the parser built it, the soup as the last pass found
\* it and the soup that was serialized are returned with the string for the
\* properties to read; they are empty when no tree was serialized.
Outcome(html_content, trail, fault) ==
    IF html_content = <<>>
    THEN [html |-> <<>>, parsed |-> <<>>, uncollapsed |-> <<>>, soup |-> <<>>,
          failed |-> FALSE]
    ELSE IF fault = NoFault
    THEN [html |-> Serialize(trail[Len(trail)]), parsed |-> trail[1],
          uncollapsed |-> trail[Len(trail) - 1], soup |-> trail[Len(trail)],
          failed |-> FALSE]
    ELSE [html |-> OnException(html_content, trail[fault + 1]),
          parsed |-> <<>>, uncollapsed |-> <<>>, soup |-> <<>>, failed |-> TRUE]

\* Faulty variant of clean_html_for_llm: the test `if not html_content` left
\* out, so that the empty string is parsed like any other.
clean_html_for_llm_unguarded(html_content, variant, fault) ==
    LET trail == RunPasses(Parse(html_content), Len(Passes), variant)
    IN IF fault = NoFault
       THEN [html |-> Serialize(trail[Len(trail)]), parsed |-> trail[1],
             uncollapsed |-> trail[Len(trail) - 1], soup |-> trail[Len(trail)],
             failed |-> FALSE]
       ELSE [html |-> html_content, parsed |-> <<>>, uncollapsed |-> <<>>,
             soup |-> <<>>, failed |-> TRUE]

\* clean_html_for_llm(html_content) in the file `variant`
clean_html_for_llm(html_content, variant, fault) ==
    Outcome(html_content, CleanTrail(html_content, variant), fault)

(***************************************************************************)
(* The inputs.  A document is written as the browser extension sends it    *)
(* (names in the case the page uses).  Two families are enumerated in      *)
(* full: every forest of at most MaxNodes nodes over the structural        *)
(* palette, and every forest of at most MaxAttrNodes nodes over the        *)
(* attribute palette; Samples adds larger documents.                       *)
(***************************************************************************)

MaxNodes == 3

MaxAttrNodes == 2

MaxMixNodes == 3

Leaf(k, s) == [k |-> k, name |-> "", attrs |-> NoAttrs, s |-> s]
Elem(name, attrs) == [k |-> "tag", name |-> name, attrs |-> attrs, s |-> <<>>]

Attrs(names, values) ==
    [x \in {names[i] : i \in 1..Len(names)} |->
        values[CHOOSE i \in 1..Len(names) : names[i] = x]]
Attr1(a, v) == Attrs(<<a>>, <<v>>)

TreePalette ==
    { Elem("div", NoAttrs),
      Elem("script", NoAttrs),
      Elem("svg", NoAttrs),
      Elem("span", Attr1(<<"hidden">>, <<>>)),
      Leaf("text", <<"a">>),
      Leaf("comment", <<"c">>) }

AttrPalette ==
    { Elem("div", NoAttrs),
      Elem("DIV", Attr1(<<"data-", "id">>, <<"7">>)),
      Elem("div", Attr1(<<"role">>, <<"main">>)),
      Elem("p", Attr1(<<"class">>, <<"Tooltip", "-box">>)),
      Elem("li", Attr1(<<"id">>, <<"page-", "LOADING">>)),
      Elem("ytd-miniplayer", NoAttrs),
      Elem("a", Attrs(<< <<"href">>, <<"aria-", "label">>, <<"aria-", "live">>,
                         <<"itemprop">>, <<"trackingParams">>, <<"class">> >>,
                      << <<"javascript:", "alert(1)">>, <<"l">>, <<"polite">>,
                         <<"i">>, <<"t">>, <<"nav">> >>)),
      Elem("iframe", Attrs(<< <<"src">>, <<"data-", "src">>, <<"title">> >>,
                           << <<"x", "[sanitized", "-url]">>, <<"u">>, <<"t">> >>)),
      Leaf("text", <<" ">>) }

\* Nodes that the passes 1 to 4.3 remove or empty, each for its own reason,
\* to be nested in one another.
MixPalette ==
    { Elem("p", Attr1(<<"class">>, <<"Tooltip", "-box">>)),
      Elem("ytd-miniplayer", NoAttrs),
      Elem("script", NoAttrs),
      Elem("svg", NoAttrs),
      Elem("span", Attr1(<<"hidden">>, <<>>)),
      Leaf("comment", <<"c">>) }

\* The depth sequences of the ordered forests of n nodes.
Shapes(n) ==
    {d \in [1..n -> 0..(n - 1)] :
        /\ n > 0 => d[1] = 0
        /\ \A i \in 1..(n - 1) : d[i + 1] <= d[i] + 1}

\* Only an element has children.
WellFormed(d, l) == \A i \in 1..(Len(d) - 1) : d[i + 1] > d[i] => l[i].k = "tag"

\* The forest of the nodes l in the shape d.
Forest(d, l) ==
    SubSeq([i \in 1..Len(d) |-> Node(0, l[i].k, l[i].name, l[i].attrs, l[i].s, d[i])],
           1, Len(d))

E(name, attrs, d) == Node(0, "tag", name, attrs, <<>>, d)
T(s, d) == Node(0, "text", "", NoAttrs, s, d)
C(s, d) == Node(0, "comment", "", NoAttrs, s, d)

SampleForests ==
    { \* <div> <div></div> </div>
      <<E("div", NoAttrs, 0), T(<<" ">>, 1), E("div", NoAttrs, 1), T(<<" ">>, 1)>>,
      \* <div>a<!--c-->b</div>
      <<E("div", NoAttrs, 0), T(<<"a">>, 1), C(<<"c">>, 1), T(<<"b">>, 1)>>,
      \* <div>a<script>x</script> </div>
      <<E("div", NoAttrs, 0), T(<<"a">>, 1), E("script", NoAttrs, 1), T(<<"x">>, 2),
        T(<<" ">>, 1)>>,
      \* four divs nested
      <<E("div", NoAttrs, 0), E("div", NoAttrs, 1), E("div", NoAttrs, 2),
        E("div", NoAttrs, 3)>>,
      \* <div class="x"><style>a</style><meta/><link href="javascript:1"/></div>
      <<E("div", Attr1(<<"class">>, <<"x">>), 0), E("style", NoAttrs, 1), T(<<"a">>, 2),
        E("meta", NoAttrs, 1), E("link", Attr1(<<"href">>, <<"javascript:", "1">>), 1)>>,
      \* <svg class="loading">a</svg><svg id="x"><path/>b</svg>
      <<E("svg", Attr1(<<"class">>, <<"loading">>), 0), T(<<"a">>, 1),
        E("svg", Attr1(<<"id">>, <<"x">>), 0), E("path", NoAttrs, 1), T(<<"b">>, 1)>>,
      \* <a href="http://x?u=javascript:1" title="[sanitized]">a</a>
      <<E("a", Attrs(<< <<"href">>, <<"title">> >>,
                     << <<"http://x?u=", "javascript:", "1">>, <<"[sanitized", "]">> >>), 0),
        T(<<"a">>, 1)>>,
      \* <A href="JavaScript:alert(1)">a</A><a href="">a</a>
      <<E("A", Attr1(<<"href">>, <<"JavaScript:", "alert(1)">>), 0), T(<<"a">>, 1),
        E("a", Attr1(<<"href">>, <<>>), 0), T(<<"a">>, 1)>>,
      \* <p class="visually-hidden">a</p><tp-yt-paper-tooltip>a</tp-yt-paper-tooltip>
      <<E("p", Attr1(<<"class">>, <<"visually-", "hidden">>), 0), T(<<"a">>, 1),
        E("tp-yt-paper-tooltip", NoAttrs, 0), T(<<"a">>, 1)>>,
      \* <span hidden="hidden"><a href="[sanitized-url]" aria-hidden="true">a</a></span>
      <<E("span", Attr1(<<"hidden">>, <<"hidden">>), 0),
        E("a", Attrs(<< <<"href">>, <<"aria-", "hidden">> >>,
                     << <<"[sanitized", "-url]">>, <<"true">> >>), 1),
        T(<<"a">>, 2)>>,
      \* <ytd-miniplayer><script>x</script></ytd-miniplayer><script>x</script>
      <<E("ytd-miniplayer", NoAttrs, 0), E("script", NoAttrs, 1), T(<<"x">>, 2),
        E("script", NoAttrs, 0), T(<<"x">>, 1)>>,
      \* <li id="page-LOADING"><!--c--><svg><p class="tooltip">a</p></svg></li>
      <<E("li", Attr1(<<"id">>, <<"page-", "LOADING">>), 0), C(<<"c">>, 1),
        E("svg", NoAttrs, 1), E("p", Attr1(<<"class">>, <<"tooltip">>), 2),
        T(<<"a">>, 3)>> }

\* Markup that is not well nested: an element left open, a close tag that
\* closes nothing.
SampleMalformed ==
    { <<OpenTok("div", NoAttrs), TextTok(<<"a">>), OpenTok("script", NoAttrs),
        TextTok(<<"x">>)>>,
      <<TextTok(<<"a">>), CloseTok("p"), TextTok(<<"b">>), OpenTok("div", NoAttrs),
        CloseTok("div"), CloseTok("div")>> }

Samples == {Serialize(f) : f \in SampleForests} \cup SampleMalformed

(***************************************************************************)
(* State: one call of the sanitizer on a request's html_structure, and a   *)
(* second call on what the first returned.                                 *)
(***************************************************************************)

VARIABLES variant, html_structure, pc, cleaned_html, parsed, uncollapsed, soup,
          failed, recleaned

\* The server process: the provider credential of its environment, whether
\* the provider's model object was built (server.py), the logging toggles, the
\* request whose handler the event loop is running ("idle" when none), and
\* what each request has reached.
VARIABLES credential, model_built, logging, loop, req

\* The snapshot files: the clock in seconds, the files of the requests and css
\* directories with what each holds, and the calls of save_html_structure and
\* save_css made so far.
VARIABLES now, disk, writes

vars == <<variant, html_structure, pc, cleaned_html, parsed, uncollapsed, soup,
          failed, recleaned, credential, model_built, logging, loop, req,
          now, disk, writes>>

\* The variables of one call of the sanitizer, and those of the server.
cvars == <<html_structure, pc, cleaned_html, parsed, uncollapsed, soup, failed, recleaned>>

svars == <<credential, model_built, logging, loop, req>>

fvars == <<now, disk, writes>>

\* No server is running.
ServerIdle ==
    /\ credential = "valid"
    /\ model_built = TRUE
    /\ logging = [html |-> FALSE, css |-> FALSE]
    /\ loop = "idle"
    /\ req = <<>>

\* No snapshot was written.
FilesIdle ==
    /\ now = 0
    /\ disk = <<>>
    /\ writes = <<>>

Init ==
    /\ variant \in Variants
    /\ \/ \E n \in 0..MaxNodes : \E d \in Shapes(n) : \E l \in [1..n -> TreePalette] :
             WellFormed(d, l) /\ html_structure = Serialize(Forest(d, l))
       \/ \E n \in 0..MaxAttrNodes : \E d \in Shapes(n) : \E l \in [1..n -> AttrPalette] :
             WellFormed(d, l) /\ html_structure = Serialize(Forest(d, l))
       \/ html_structure \in Samples
    /\ pc = "received"
    /\ cleaned_html = <<>>
    /\ parsed = <<>>
    /\ uncollapsed = <<>>
    /\ soup = <<>>
    /\ failed = FALSE
    /\ recleaned = <<>>
    /\ ServerIdle
    /\ FilesIdle

\* cleaned_html = clean_html_for_llm(request.html_structure)
Clean ==
    /\ pc = "received"
    /\ \E fault \in 0..NoFault :
          \E r \in {clean_html_for_llm(html_structure, variant, fault)} :
             /\ cleaned_html' = r.html
             /\ parsed' = r.parsed
             /\ uncollapsed' = r.uncollapsed
             /\ soup' = r.soup
             /\ failed' = r.failed
    /\ pc' = "cleaned"
    /\ UNCHANGED <<variant, html_structure, recleaned>>
    /\ UNCHANGED <<svars, fvars>>

\* clean_html_for_llm applied to its own output
CleanAgain ==
    /\ pc = "cleaned"
    /\ ~failed
    /\ recleaned' = clean_html_for_llm(cleaned_html, variant, NoFault).html
    /\ pc' = "recleaned"
    /\ UNCHANGED <<variant, html_structure, cleaned_html, parsed, uncollapsed, soup, failed>>
    /\ UNCHANGED <<svars, fvars>>

Next == Clean \/ CleanAgain

Spec == Init /\ [][Next]_vars

\* The same two calls on the documents in which the removal passes meet:
\* every forest of at most MaxMixNodes nodes over MixPalette, and the samples.
MixInit ==
    /\ variant \in Variants
    /\ \/ \E n \in 0..MaxMixNodes : \E d \in Shapes(n) : \E l \in [1..n -> MixPalette] :
             WellFormed(d, l) /\ html_structure = Serialize(Forest(d, l))
       \/ html_structure \in Samples
    /\ pc = "received"
    /\ cleaned_html = <<>>
    /\ parsed = <<>>
    /\ uncollapsed = <<>>
    /\ soup = <<>>
    /\ failed = FALSE
    /\ recleaned = <<>>
    /\ ServerIdle
    /\ FilesIdle

MixSpec == MixInit /\ [][Next]_vars

(***************************************************************************)
(* The /restyle endpoint of the three servers: server.py ("server"),       *)
(* server-claude.py ("claude") and server-or.py ("or").  Each server runs  *)
(* its handlers on one event loop: a handler runs from the moment the loop *)
(* starts it until it returns, raises or awaits, and no other handler runs *)
(* meanwhile.  A request goes through the stages received, sanitizing,     *)
(* prompting, generating and ends responding (status 200) or failed.       *)
(***************************************************************************)

Servers == {"server", "claude", "or"}

Requests == {"r1", "r2"}

Credentials == {"missing", "placeholder", "valid"}

\* The bodies a client posts: an art direction and an HTML string.
Prompts == {"", "make it cyberpunk"}

RequestDocs ==
    { <<>>,
      <<OpenTok("div", NoAttrs), TextTok(<<"Hi">>), OpenTok("script", NoAttrs),
        TextTok(<<"x">>), CloseTok("script"), CloseTok("div")>> }

\* The text the provider generates.
GeneratedCss == "body{}"

\* A response body is the set of its JSON fields, each with its value.
Fields(body) == {f[1] : f \in body}

NoPrompt == [art_direction |-> "", html |-> <<>>]

NoResponse == [status |-> 0, body |-> {}]

\* A request the server has not started to handle.
Pending ==
    [pc |-> "pending", prompt |-> "", html_structure |-> <<>>, cleaned_html |-> <<>>,
     system_prompt |-> NoPrompt, upstream |-> "none", calls |-> 0, saved |-> {},
     log_error |-> FALSE, response |-> NoResponse]

\* Module level of each file: client is None unless the key is set and is
\* not the placeholder (server-claude.py); the handler of server-or.py tests
\* the key itself; server.py tests model, which is None only when building
\* the model object raised, whatever the key.
Configured(v) == IF v = "server" THEN model_built ELSE credential = "valid"

\* raise HTTPException(status_code=500, detail="... not initialized ...")
NotInitialized == [status |-> 500, body |-> {<<"detail", "not initialized">>}]

\* An exception that leaves the handler: the framework answers 500 with the
\* plain text Internal Server Error, which has no JSON field.
InternalServerError == [status |-> 500, body |-> {}]

\* Faulty variant of GenerationError: the except clause answers with an empty
\* style.
GenerationErrorSwallowed == [status |-> 200, body |-> {<<"generated_style", "">>}]

\* except Exception as e: raise HTTPException(500, f"Error generating style: {e}")
GenerationError == [status |-> 500, body |-> {<<"detail", "Error generating style">>}]

\* Faulty variant of SuccessBody: every file returns the prompt with the style.
SuccessBodyEcho(v, prompt, generated_style) ==
    {<<"received_prompt", prompt>>, <<"generated_style", generated_style>>}

\* The dictionary the handler returns.
SuccessBody(v, prompt, generated_style) ==
    IF v = "server"
    THEN {<<"received_prompt", prompt>>, <<"generated_style", generated_style>>}
    ELSE {<<"generated_style", generated_style>>}

\* The f-string template: the art direction and the HTML, each verbatim in
\* its place of the fixed text.  server.py puts the request's html_structure
\* there, the two other files the sanitizer's result.
SystemPrompt(v, r) ==
    [art_direction |-> r.prompt,
     html |-> IF v = "server" THEN r.html_structure ELSE r.cleaned_html]

\* await client.post(...) gives the loop back while the call is in flight;
\* client.messages.create(...) and model.generate_content(...) return only
\* when the provider has answered.
Awaits(v) == v = "or"

\* What a call of the provider ends with: a well-formed answer; an exception
\* of the client (network, time-out, authentication); an answer with an error
\* status; an answer without the expected parts; an answer whose content is
\* null (a JSON answer, server-or.py).
UpstreamResults(v) ==
    {"ok", "network", "status", "malformed"} \cup (IF v = "or" THEN {"null"} ELSE {})

\* The statements between the call and the snapshot of the CSS: whether they
\* raise, and the generated_style they give ("None" stands for None).
Extract(v, upstream) ==
    CASE upstream = "ok" -> [raised |-> FALSE, generated_style |-> GeneratedCss]
      [] upstream = "null" -> [raised |-> FALSE, generated_style |-> "None"]
      [] OTHER -> [raised |-> TRUE, generated_style |-> ""]

\* What save_css writes: server-or.py puts a comment with the host name
\* before the CSS.
CssSnapshot(v, generated_style) ==
    [kind |-> "css",
     content |-> IF v = "or" THEN <<"/* CSS for hostname */", generated_style>>
                 ELSE <<generated_style>>]

HtmlSnapshot(cleaned) == [kind |-> "html", content |-> cleaned]

\* Faulty variant of AfterCall: a failed call is made again.
AfterCallRetry(v, r, io_ok) ==
    LET ex == Extract(v, r.upstream)
    IN IF ex.raised
       THEN [r EXCEPT !.upstream = "none"]
       ELSE [r EXCEPT !.pc = "responding",
                      !.response = [status |-> 200,
                                    body |-> SuccessBody(v, r.prompt, ex.generated_style)]]

\* Faulty variant of AfterCall: an exception of the call is swallowed and the
\* handler never leaves the try block.
AfterCallHangs(v, r, io_ok) ==
    LET ex == Extract(v, r.upstream)
    IN IF ex.raised \/ ex.generated_style = "None"
       THEN r
       ELSE [r EXCEPT !.pc = "responding",
                      !.response = [status |-> 200,
                                    body |-> SuccessBody(v, r.prompt, ex.generated_style)]]

\* The handler from the return of the provider's call to its end: the try
\* block after the call and the except clause.  io_ok tells whether writing
\* the CSS snapshot succeeds.
AfterCall(v, r, io_ok) ==
    LET ex == Extract(v, r.upstream)
        logs == v # "server" /\ logging.css
        failure == [r EXCEPT !.pc = "failed", !.response = GenerationError]
    IN IF ex.raised THEN failure
       ELSE IF logs /\ ~io_ok THEN [failure EXCEPT !.log_error = TRUE]
       ELSE LET saved == IF logs THEN r.saved \cup {CssSnapshot(v, ex.generated_style)}
                         ELSE r.saved
            IN IF ex.generated_style = "None"
               THEN [failure EXCEPT !.saved = saved]
               ELSE [r EXCEPT !.pc = "responding",
                              !.saved = saved,
                              !.response =
                                  [status |-> 200,
                                   body |-> SuccessBody(v, r.prompt, ex.generated_style)]]

\* The loop starts the handler of a request.
Receive(r) ==
    /\ loop = "idle"
    /\ req[r].pc = "pending"
    /\ \E p \in Prompts : \E h \in RequestDocs :
          req' = [req EXCEPT ![r].pc = "received", ![r].prompt = p,
                             ![r].html_structure = h]
    /\ loop' = r
    /\ UNCHANGED <<variant, credential, model_built, logging>>
    /\ UNCHANGED <<cvars, fvars>>

\* if not client / if not openrouter_api_key ... / if not model
CheckConfig(r) ==
    /\ loop = r
    /\ req[r].pc = "received"
    /\ IF Configured(variant)
       THEN /\ req' = [req EXCEPT ![r].pc = IF variant = "server" THEN "prompting"
                                            ELSE "sanitizing"]
            /\ loop' = r
       ELSE /\ req' = [req EXCEPT ![r].pc = "failed", ![r].response = NotInitialized]
            /\ loop' = "idle"
    /\ UNCHANGED <<variant, credential, model_built, logging>>
    /\ UNCHANGED <<cvars, fvars>>

\* cleaned_html = clean_html_for_llm(request.html_structure), then the
\* snapshot of the cleaned HTML, which is outside any try block.
Sanitize(r) ==
    /\ loop = r
    /\ req[r].pc = "sanitizing"
    /\ \E fault \in {0, NoFault} : \E io_ok \in BOOLEAN :
          \E cleaned \in {clean_html_for_llm(req[r].html_structure, variant, fault).html} :
             IF logging.html /\ ~io_ok
             THEN /\ req' = [req EXCEPT ![r].pc = "failed", ![r].cleaned_html = cleaned,
                                        ![r].log_error = TRUE,
                                        ![r].response = InternalServerError]
                  /\ loop' = "idle"
             ELSE /\ req' = [req EXCEPT ![r].pc = "prompting", ![r].cleaned_html = cleaned,
                                        ![r].saved = IF logging.html
                                                     THEN {HtmlSnapshot(cleaned)}
                                                     ELSE {}]
                  /\ loop' = r
    /\ UNCHANGED <<variant, credential, model_built, logging>>
    /\ UNCHANGED <<cvars, fvars>>

\* system_prompt = f"""..."""
BuildPrompt(r) ==
    /\ loop = r
    /\ req[r].pc = "prompting"
    /\ req' = [req EXCEPT ![r].pc = "generating",
                          ![r].system_prompt = SystemPrompt(variant, req[r])]
    /\ UNCHANGED <<variant, credential, model_built, logging, loop>>
    /\ UNCHANGED <<cvars, fvars>>

\* The call of the provider is made.
CallGateway(r) ==
    /\ loop = r
    /\ req[r].pc = "generating"
    /\ req[r].upstream = "none"
    /\ req[r].calls < 2
    /\ req' = [req EXCEPT ![r].upstream = "in_flight", ![r].calls = @ + 1]
    /\ loop' = IF Awaits(variant) THEN "idle" ELSE r
    /\ UNCHANGED <<variant, credential, model_built, logging>>
    /\ UNCHANGED <<cvars, fvars>>

\* The provider answers, or the call fails.
GatewayReturns(r) ==
    /\ req[r].upstream = "in_flight"
    /\ \E result \in UpstreamResults(variant) :
          req' = [req EXCEPT ![r].upstream = result]
    /\ UNCHANGED <<variant, credential, model_built, logging, loop>>
    /\ UNCHANGED <<cvars, fvars>>

\* The handler goes on after the call, to its end.
Finish(r) ==
    /\ req[r].pc = "generating"
    /\ req[r].upstream \in UpstreamResults(variant)
    /\ loop = IF Awaits(variant) THEN "idle" ELSE r
    /\ \E io_ok \in BOOLEAN :
          LET after == AfterCall(variant, req[r], io_ok)
          IN /\ req' = [req EXCEPT ![r] = after]
             /\ loop' = IF after.pc = "generating" THEN r ELSE "idle"
    /\ UNCHANGED <<variant, credential, model_built, logging>>
    /\ UNCHANGED <<cvars, fvars>>

ServerInit ==
    /\ variant \in Servers
    /\ credential \in Credentials
    /\ model_built \in (IF variant = "server" THEN BOOLEAN ELSE {TRUE})
    /\ logging \in (IF variant = "server" THEN {[html |-> FALSE, css |-> FALSE]}
                    ELSE [html : BOOLEAN, css : BOOLEAN])
    /\ loop = "idle"
    /\ req = [r \in Requests |-> Pending]
    /\ html_structure = <<>>
    /\ pc = "received"
    /\ cleaned_html = <<>>
    /\ parsed = <<>>
    /\ uncollapsed = <<>>
    /\ soup = <<>>
    /\ failed = FALSE
    /\ recleaned = <<>>
    /\ FilesIdle

ServerNext ==
    \E r \in Requests :
        \/ Receive(r)
        \/ CheckConfig(r)
        \/ Sanitize(r)
        \/ BuildPrompt(r)
        \/ CallGateway(r)
        \/ GatewayReturns(r)
        \/ Finish(r)

ServerSpec == ServerInit /\ [][ServerNext]_vars

\* The event loop runs every handler that can go on, and the provider's call
\* returns or fails in the end: httpx.AsyncClient(timeout=60.0) in
\* server-or.py, the client's own timeout in server-claude.py.  Nothing
\* obliges a request to arrive.
Fairness ==
    \A r \in Requests :
        /\ WF_vars(CheckConfig(r))
        /\ WF_vars(Sanitize(r))
        /\ WF_vars(BuildPrompt(r))
        /\ WF_vars(CallGateway(r))
        /\ WF_vars(GatewayReturns(r))
        /\ WF_vars(Finish(r))

LiveServerSpec == ServerSpec /\ Fairness

(***************************************************************************)
(* The snapshot files: save_html_structure and save_css.  A prompt is a    *)
(* sequence of characters.                                                 *)
(***************************************************************************)

\* The last second of the clock.
MaxClock == 1

\* Characters of the prompts: a letter and a digit (the digit comes with the
\* long prompt), the three other characters the file name keeps, and one it
\* drops.
Letters == {"a"}

Digits == {"7"}

PromptChars == Letters \cup {" ", "_", "-", "!"}

\* c.isalnum()
IsAlnum(c) == c \in Letters \cup Digits

\* A prompt of 29 characters, all of them kept.
LongPrompt == SubSeq([i \in 1..29 |-> IF i % 2 = 1 THEN "a" ELSE "7"], 1, 29)

\* The prompts of the requests: nothing, two words, a prompt just below the 30
\* characters of the file name and one of 30 characters that ends in a
\* space, each of them as it is and with one more character.
FilePrompts ==
    {h \o t : h \in {<<>>, <<"a", " ">>, LongPrompt, LongPrompt \o <<" ">>},
              t \in {<<>>} \cup {<<c>> : c \in PromptChars}}

Contents == {"v1", "v2"}

\* ''.join(c for c in prompt if c.isalnum() or c in ' _-')
JoinKept(prompt) == SelectSeq(prompt, LAMBDA c : IsAlnum(c) \/ c \in {" ", "_", "-"})

\* [:30]
First30(s) == SubSeq(s, 1, IF Len(s) < 30 THEN Len(s) ELSE 30)

\* .strip(): after the join the only white space left is the space.
StripSpaces(s) ==
    LET solid == {i \in 1..Len(s) : s[i] # " "}
    IN IF solid = {} THEN <<>>
       ELSE SubSeq(s, CHOOSE i \in solid : \A j \in solid : i <= j,
                      CHOOSE i \in solid : \A j \in solid : i >= j)

\* .replace(' ', '_')
ReplaceSpaces(s) == SubSeq([i \in 1..Len(s) |-> IF s[i] = " " THEN "_" ELSE s[i]], 1, Len(s))

\* Faulty variant of safe_prompt: the slice [:30] left out.
safe_prompt_unsliced(prompt) == ReplaceSpaces(StripSpaces(JoinKept(prompt)))

\* safe_prompt = ''.join(...)[:30].strip().replace(' ', '_')
safe_prompt(prompt) == ReplaceSpaces(StripSpaces(First30(JoinKept(prompt))))

\* file_path = requests_dir / f"{timestamp}_{safe_prompt}.html" (css_dir,
\* .css); the timestamp has the resolution of a second.
FilePath(kind, timestamp, prompt) ==
    [dir |-> IF kind = "html" THEN "requests" ELSE "css",
     timestamp |-> timestamp,
     safe_prompt |-> safe_prompt(prompt),
     ext |-> kind]

\* with open(file_path, 'w', encoding='utf-8') as f: f.write(...): the file is
\* created, or what it held is replaced.
WriteFile(files, path, content) ==
    [f \in DOMAIN files \cup {path} |-> IF f = path THEN content ELSE files[f]]

\* One call of save_html_structure (kind "html") or save_css (kind "css")
\* with the toggle of its kind on; with the toggle off the function returns
\* before it does anything.  One call is followed for each request.
Save(kind, prompt, content) ==
    /\ Len(writes) < Cardinality(Requests)
    /\ logging[kind]
    /\ LET path == FilePath(kind, now, prompt)
           snapshot == IF kind = "html" THEN HtmlSnapshot(content)
                       ELSE CssSnapshot(variant, content)
       IN /\ disk' = WriteFile(disk, path, snapshot.content)
          /\ writes' = Append(writes, [kind |-> kind, prompt |-> prompt, at |-> now,
                                       path |-> path, wrote |-> snapshot.content])
    /\ UNCHANGED <<variant, now>>
    /\ UNCHANGED <<cvars, svars>>

save_html_structure ==
    \E prompt \in FilePrompts :
        \E content \in Contents : Save("html", prompt, content)

save_css ==
    \E prompt \in FilePrompts :
        \E content \in Contents : Save("css", prompt, content)

\* datetime.datetime.now(): a second passes.
Tick ==
    /\ now < MaxClock
    /\ now' = now + 1
    /\ UNCHANGED <<variant, disk, writes>>
    /\ UNCHANGED <<cvars, svars>>

FileInit ==
    /\ variant \in Variants
    /\ credential = "valid"
    /\ model_built = TRUE
    /\ logging \in [html : BOOLEAN, css : BOOLEAN]
    /\ loop = "idle"
    /\ req = <<>>
    /\ html_structure = <<>>
    /\ pc = "received"
    /\ cleaned_html = <<>>
    /\ parsed = <<>>
    /\ uncollapsed = <<>>
    /\ soup = <<>>
    /\ failed = FALSE
    /\ recleaned = <<>>
    /\ FilesIdle

FileNext == save_html_structure \/ save_css \/ Tick

FileSpec == FileInit /\ [][FileNext]_vars

(***************************************************************************)
(* Properties                                                              *)
(***************************************************************************)

\* The first call returned from the end of the try block.
Completed == pc # "received" /\ ~failed /\ html_structure # <<>>

Ancestors(t, i) == {j \in 1..(i - 1) : SubEnd(t, j) >= i}

SubtreeIds(t, i) == {t[m].id : m \in i..SubEnd(t, i)}

\* parsed is the tree the first call parsed; a node's id is its position in
\* it.  The node of soup that is the parsed node i, 0 when it left the tree.
Kept(i) == IndexOf(soup, parsed[i].id)

IsElement(n, name) == n.k = "tag" /\ n.name = name

\* A div without attributes, without child elements and with at most white
\* space as text, in the tree a parse of html gives.
EmptyDivIn(html) ==
    LET t == Parse(html)
    IN \E i \in 1..Len(t) :
          /\ IsElement(t[i], "div")
          /\ DOMAIN t[i].attrs = {}
          /\ \A m \in (i + 1)..SubEnd(t, i) : t[m].k = "text" /\ IsBlank(t[m].s)

\* C1 as stated: sanitize(sanitize(x)) = sanitize(x) for every input x.
C1_Idempotent == pc = "recleaned" => recleaned = cleaned_html

\* C1 amended: sanitize(sanitize(x)) = sanitize(x) exactly when sanitize(x)
\* holds no div without attributes, without child elements and without
\* non-blank text; the single-pass collapse leaves such a div where it removed
\* the child divs of a div it had already examined, and a second run removes it.
C1_IdempotentUnlessEmptyDivLeft ==
    pc = "recleaned" => (recleaned = cleaned_html <=> ~EmptyDivIn(cleaned_html))

\* C1 witness: a run that collapsed a div and whose output the second run
\* returns unchanged.
C1_Witness ==
    /\ pc = "recleaned"
    /\ recleaned = cleaned_html
    /\ Len(soup) > 2
    /\ \E i \in 1..Len(parsed) : IsElement(parsed[i], "div") /\ Kept(i) = 0

\* C2: the call always returns a string; when anything inside the try block
\* raises, the string is the input verbatim; otherwise it is the serialization
\* of the tree after all the passes ran; the empty input is returned as it is.
C2_FailOpen ==
    pc # "received" =>
        /\ html_structure = <<>> => cleaned_html = <<>> /\ ~failed
        /\ failed => cleaned_html = html_structure
        /\ (~failed /\ html_structure # <<>>) =>
              /\ cleaned_html = Serialize(soup)
              /\ pc = "cleaned" =>
                    /\ parsed = Parse(html_structure)
                    /\ soup = RunPasses(parsed, Len(Passes), variant)[Len(Passes) + 1]

\* C2 witness: an exception on an input with a script element; the script
\* is still in what is returned.
C2_Witness ==
    /\ pc = "cleaned"
    /\ failed
    /\ cleaned_html = html_structure
    /\ \E i \in 1..Len(html_structure) :
          html_structure[i].k = "open" /\ html_structure[i].name = "script"

\* C3: when the call completes, the output has no script, style, meta or link
\* element, and no node that was such an element or below one.
C3_NoScriptStyleMetaLink ==
    Completed =>
        /\ \A i \in 1..Len(cleaned_html) :
              ~(cleaned_html[i].k = "open"
                /\ cleaned_html[i].name \in {"script", "style", "meta", "link"})
        /\ \A i \in 1..Len(parsed) :
              (parsed[i].k = "tag" /\ parsed[i].name \in {"script", "style", "meta", "link"})
                  => SubtreeIds(parsed, i) \cap Ids(soup) = {}

\* C3 witness: a script with content inside an element that stays.
C3_Witness ==
    /\ Completed
    /\ \E i \in 1..Len(parsed) :
          /\ IsElement(parsed[i], "script")
          /\ SubEnd(parsed, i) > i
          /\ \E j \in Ancestors(parsed, i) : parsed[j].d = 2 /\ Kept(j) # 0

\* C4: when the call completes, the output has no comment, at any depth.
C4_NoComment ==
    Completed =>
        /\ \A i \in 1..Len(cleaned_html) : cleaned_html[i].k # "comment"
        /\ \A i \in 1..Len(soup) : soup[i].k # "comment"

\* C4 witness: a comment nested in an element that stays.
C4_Witness ==
    /\ Completed
    /\ \E i \in 1..Len(parsed) :
          /\ parsed[i].k = "comment"
          /\ parsed[i].d > 2
          /\ \E j \in Ancestors(parsed, i) : parsed[j].d = 2 /\ Kept(j) # 0

\* The substrings and the custom element names the spec lists as marking
\* non-visible elements.
NonVisibleMarks ==
    { <<"spinner">>, <<"tooltip">>, <<"skeleton">>, <<"loading">>, <<"hidden">>,
      <<"invisible">>, <<"offscreen">>, <<"visually-", "hidden">> }

CustomNonVisible ==
    {"tp-yt-paper-spinner-lite", "tp-yt-paper-tooltip", "ytd-popup-container",
     "ytd-miniplayer"}

MarkedNonVisible(n) ==
    /\ n.k = "tag"
    /\ \/ n.name \in CustomNonVisible
       \/ \E a \in {<<"class">>, <<"id">>} :
             /\ a \in DOMAIN n.attrs
             /\ \E mark \in NonVisibleMarks : HasSub(Lower(n.attrs[a]), mark)

HasHidden(n) == n.k = "tag" /\ <<"hidden">> \in DOMAIN n.attrs

\* The element matches one of the rules that remove an element with its subtree.
RemovalRule(n) ==
    /\ n.k = "tag"
    /\ \/ n.name \in {"script", "style", "meta", "link"}
       \/ HasHidden(n)
       \/ MarkedNonVisible(n)

\* C5: when the call completes, every svg element that matches no removal
\* rule and lies neither below an element that matches one nor below another
\* svg is in the output as an svg element, and every svg element of the output
\* has no child node: its open tag is followed by its close tag.
C5_SvgKeptAndEmptied ==
    Completed =>
        /\ \A i \in 1..Len(parsed) :
              ( /\ IsElement(parsed[i], "svg")
                /\ ~RemovalRule(parsed[i])
                /\ \A j \in Ancestors(parsed, i) :
                      ~RemovalRule(parsed[j]) /\ parsed[j].name # "svg" )
                  => Kept(i) # 0 /\ IsElement(soup[Kept(i)], "svg")
        /\ \A m \in 1..Len(soup) : IsElement(soup[m], "svg") => SubEnd(soup, m) = m
        /\ \A i \in 1..Len(cleaned_html) :
              (cleaned_html[i].k = "open" /\ cleaned_html[i].name = "svg")
                  => i < Len(cleaned_html) /\ cleaned_html[i + 1] = CloseTok("svg")

\* C5 witness: an svg with children in the input, in the output without them.
C5_Witness ==
    /\ Completed
    /\ \E i \in 1..Len(parsed) :
          /\ IsElement(parsed[i], "svg")
          /\ SubEnd(parsed, i) > i
          /\ Kept(i) # 0

\* C6: when the call completes, no element that carried a hidden attribute
\* (whatever its value) and no node below one is in the output.
C6_HiddenRemoved ==
    Completed =>
        /\ \A i \in 1..Len(parsed) :
              HasHidden(parsed[i]) => SubtreeIds(parsed, i) \cap Ids(soup) = {}
        /\ \A i \in 1..Len(cleaned_html) : <<"hidden">> \notin DOMAIN cleaned_html[i].attrs

\* C6 witness: a hidden element with the empty value inside a hidden element.
C6_Witness ==
    /\ Completed
    /\ \E i \in 1..Len(parsed) :
          /\ HasHidden(parsed[i])
          /\ parsed[i].attrs[<<"hidden">>] = <<>>
          /\ \E j \in Ancestors(parsed, i) : HasHidden(parsed[j])

\* C7: when the call completes, the output has no element whose class or id
\* holds one of the marks in any case and no element of a listed custom name;
\* every such element of the input is gone with its subtree.
C7_NonVisibleRemoved ==
    Completed =>
        /\ \A i \in 1..Len(parsed) :
              MarkedNonVisible(parsed[i]) => SubtreeIds(parsed, i) \cap Ids(soup) = {}
        /\ \A m \in 1..Len(soup) : ~MarkedNonVisible(soup[m])
        /\ \A i \in 1..Len(cleaned_html) :
              cleaned_html[i].k = "open" =>
                  ~MarkedNonVisible([cleaned_html[i] EXCEPT !.k = "tag"])

\* C7 witness: an element whose class holds a mark in another case, with a
\* child.
C7_Witness ==
    /\ Completed
    /\ \E i \in 1..Len(parsed) :
          /\ parsed[i].k = "tag"
          /\ <<"class">> \in DOMAIN parsed[i].attrs
          /\ HasSub(parsed[i].attrs[<<"class">>], <<"Tooltip">>)
          /\ SubEnd(parsed, i) > i

LinkAttrs == {<<"href">>, <<"src">>}

\* The value holds the marker "[sanitized" or begins with "javascript:".
Unsafe(value) == HasSub(value, <<"[sanitized">>) \/ StartsWith(value, <<"javascript:">>)

\* C8: when the call completes, every element of the output whose href or src
\* was unsafe in the input has "#" as that attribute's value.
C8_LinksNeutralized ==
    Completed =>
        \A m \in 1..Len(soup) : \A a \in LinkAttrs :
            LET was == parsed[soup[m].id].attrs
            IN (a \in DOMAIN was /\ Unsafe(was[a]))
                   => a \in DOMAIN soup[m].attrs /\ soup[m].attrs[a] = <<"#">>

\* C8 witness: an href that began with javascript: and a src that held the
\* marker, both on elements of the output.
C8_Witness ==
    /\ Completed
    /\ \E m \in 1..Len(soup) :
          LET was == parsed[soup[m].id].attrs
          IN <<"href">> \in DOMAIN was /\ StartsWith(was[<<"href">>], <<"javascript:">>)
    /\ \E m \in 1..Len(soup) :
          LET was == parsed[soup[m].id].attrs
          IN <<"src">> \in DOMAIN was /\ HasSub(was[<<"src">>], <<"[sanitized">>)

DenyNames ==
    { <<"itemprop">>, <<"itemscope">>, <<"itemtype">>, <<"trackingParams">>,
      <<"nonce">>, <<"jslog">>, <<"ved">>, <<"ftl-eligible">>,
      <<"notify-on-loaded">>, <<"notify-on-unloaded">> }

Denied(a) == StartsWith(a, <<"data-">>) \/ a \in DenyNames

\* role and the aria-* names server-claude.py lists
ListedAccessibility ==
    { <<"role">> } \cup
    { <<"aria-", x>> : x \in {"label", "labelledby", "hidden", "expanded", "haspopup",
                              "controls", "checked", "selected", "current", "disabled",
                              "describedby"} }

\* The attribute is in the output as it was in the input, or as "#" when it
\* is an href or src.
Unchanged(m, a) ==
    /\ a \in DOMAIN soup[m].attrs
    /\ \/ soup[m].attrs[a] = parsed[soup[m].id].attrs[a]
       \/ a \in LinkAttrs /\ soup[m].attrs[a] = <<"#">>

IsAccessibility(a) == a = <<"role">> \/ StartsWith(a, <<"aria-">>)

HasAccessibility(html) ==
    \E i \in 1..Len(html) : \E a \in DOMAIN html[i].attrs : IsAccessibility(Lower(a))

DivIds == FindAll(SelectSeq(uncollapsed, LAMBDA n : IsElement(n, "div")))

AtExam(k) == CollapseEach(uncollapsed, SubSeq(DivIds, 1, k - 1))

\* The node at position i of t has no attributes, no element below it and no
\* text but white space.
EmptyAt(t, i) ==
    /\ DOMAIN t[i].attrs = {}
    /\ \A m \in (i + 1)..SubEnd(t, i) : t[m].k = "text" /\ IsBlank(t[m].s)

\* C11: when the call completes, every div that has no attributes, no child
\* elements and at most white space as text when the last pass examines it is
\* not in the output, and every div that has an attribute when it is examined
\* is in the output.
C11_EmptyWrapperCollapse ==
    Completed =>
        \A k \in 1..Len(DivIds) :
            LET t == AtExam(k)
                i == IndexOf(t, DivIds[k])
            IN /\ i # 0
               /\ EmptyAt(t, i) => DivIds[k] \notin Ids(soup)
               /\ DOMAIN t[i].attrs # {} => DivIds[k] \in Ids(soup)

\* C11 witness: one run in which an empty div without attributes was removed
\* and an empty div that had kept an attribute stayed.
C11_Witness ==
    /\ Completed
    /\ \E k \in 1..Len(DivIds) :
          /\ EmptyAt(AtExam(k), IndexOf(AtExam(k), DivIds[k]))
          /\ DivIds[k] \notin Ids(soup)
    /\ \E m \in 1..Len(soup) :
          /\ IsElement(soup[m], "div")
          /\ DOMAIN soup[m].attrs # {}
          /\ SubEnd(soup, m) = m

\* C12: the call on the empty string returns the empty string; no tree is
\* built for it (so no html/body skeleton is put around it) and no exception
\* is caught.
C12_EmptyString ==
    (pc # "received" /\ html_structure = <<>>) =>
        /\ cleaned_html = <<>>
        /\ parsed = <<>>
        /\ soup = <<>>
        /\ ~failed
        /\ pc = "recleaned" => recleaned = <<>>

\* C12 witness: the call returned on the empty string.
C12_Witness == pc = "cleaned" /\ html_structure = <<>> /\ cleaned_html = <<>>

\* C19: the collapse is one pass over the divs in document order, each tested
\* against the tree as it is at its turn. When the call completes, a div of
\* the output without attributes, without child elements and with at most
\* white space as text had an element below it when it was examined, and
\* every div that was already empty when the pass started is not in the
\* output.
C19_SinglePassCollapse ==
    Completed =>
        /\ \A k \in 1..Len(DivIds) :
              LET m == IndexOf(soup, DivIds[k])
                  t == AtExam(k)
                  i == IndexOf(t, DivIds[k])
              IN (m # 0 /\ EmptyAt(soup, m)) =>
                    /\ i # 0
                    /\ \E j \in (i + 1)..SubEnd(t, i) : IsTag(t[j])
        /\ \A i \in 1..Len(uncollapsed) :
              (IsElement(uncollapsed[i], "div") /\ EmptyAt(uncollapsed, i)) =>
                  uncollapsed[i].id \notin Ids(soup)
        /\ \A m \in 1..Len(soup) : IsElement(soup[m], "div") => soup[m].id \in Ids(uncollapsed)

\* C19 witness: one run in which a div that was empty when the pass started
\* was removed, and the div around it, examined while it still held that
\* child, is in the output, empty.
C19_Witness ==
    /\ Completed
    /\ \E k \in 1..Len(DivIds) :
          LET m == IndexOf(soup, DivIds[k])
              i == IndexOf(uncollapsed, DivIds[k])
          IN /\ m # 0
             /\ EmptyAt(soup, m)
             /\ \E j \in (i + 1)..SubEnd(uncollapsed, i) :
                   /\ IsElement(uncollapsed[j], "div")
                   /\ EmptyAt(uncollapsed, j)
                   /\ uncollapsed[j].id \notin Ids(soup)

\* The passes with the removal by class, id and tag name (4.2, 4.3) moved in
\* front of the k-th of the passes 1 to 4.1.
Reordered(k) ==
    LET early == <<"tags", "comments", "svg", "hidden">>
    IN SubSeq(early, 1, k - 1) \o <<"patterns", "youtube">> \o SubSeq(early, k, 4)
           \o <<"attrs", "divs">>

\* The trees after the passes of a list, in the order of the list, and the
\* last of them.
RECURSIVE TrailInOrder(_, _, _)
TrailInOrder(t, order, v) ==
    IF order = <<>> THEN <<t>>
    ELSE LET trail == TrailInOrder(t, SubSeq(order, 1, Len(order) - 1), v)
         IN Append(trail, ApplyPass(order[Len(order)], trail[Len(order)], v))

RunInOrder(t, order, v) == TrailInOrder(t, order, v)[Len(order) + 1]

\* C24: when the call has completed, its final tree, which the passes gave in
\* the order of the code, is the tree that comes out when the removal by
\* class, id and tag name runs before any of the passes that remove
\* script/style/meta/link, remove comments, empty svg and remove elements
\* with the hidden attribute.  (The second call leaves parsed and soup as
\* they are, so the state after the first call is the one to look at.)
C24_RemovalPassesCommute ==
    (pc = "cleaned" /\ Completed) =>
        \A k \in 1..4 : RunInOrder(parsed, Reordered(k), variant) = soup

\* C24 witness: a completed call on a tree in which an element removed for
\* its class stands inside an svg element and holds a script, a comment or an
\* element with the hidden attribute, so that the passes compete for the
\* same subtrees and leave different trees after their first step.
C24_Witness ==
    /\ pc = "cleaned"
    /\ Completed
    /\ \E i \in 1..Len(parsed) : \E j \in (i + 1)..SubEnd(parsed, i) :
          /\ IsElement(parsed[i], "svg")
          /\ \E p \in 1..Len(non_visible_patterns) :
                ClassMatches(parsed[j], non_visible_patterns[p])
          /\ \E m \in (j + 1)..SubEnd(parsed, j) :
                \/ IsElement(parsed[m], "script")
                \/ parsed[m].k = "comment"
                \/ IsTag(parsed[m]) /\ <<"hidden">> \in DOMAIN parsed[m].attrs
    /\ ApplyPass("patterns", parsed, variant) # ApplyPass("tags", parsed, variant)
    /\ \E i \in 1..Len(soup) : IsElement(soup[i], "svg") /\ SubEnd(soup, i) = i

\* C25 as stated: when the call completes, every div that the last pass found
\* without attributes, without an element below it and with a text that is not
\* all white space, in one text node or in several, is in the output.
C25_TextDivKept ==
    Completed =>
        \A i \in 1..Len(uncollapsed) :
            (/\ IsElement(uncollapsed[i], "div")
             /\ DOMAIN uncollapsed[i].attrs = {}
             /\ \A m \in (i + 1)..SubEnd(uncollapsed, i) : uncollapsed[m].k = "text"
             /\ \E m \in (i + 1)..SubEnd(uncollapsed, i) : ~IsBlank(uncollapsed[m].s))
                => uncollapsed[i].id \in Ids(soup)

\* C26 as stated: when the call completes, every href or src of an element of
\* the output whose value neither held "[sanitized" nor began with
\* "javascript:" has the value it had, and every other attribute the element
\* still has has the value it had.
C26_OtherValuesUnchanged ==
    Completed =>
        \A m \in 1..Len(soup) :
            LET was == parsed[soup[m].id].attrs
                is == soup[m].attrs
            IN /\ DOMAIN is \subseteq DOMAIN was
               /\ \A a \in DOMAIN was \cap LinkAttrs :
                     ~Unsafe(was[a]) => a \in DOMAIN is /\ is[a] = was[a]
               /\ \A a \in DOMAIN is \ LinkAttrs : is[a] = was[a]

(***************************************************************************)
(* Properties of the endpoint (ServerSpec)                                 *)
(***************************************************************************)

Ended(r) == req[r].pc \in {"responding", "failed"}

UpstreamFailures == {"network", "status", "malformed", "null"}

IsError(response) == response.status >= 400 /\ "detail" \in Fields(response.body)

\* C13 as stated: with the credential missing or the placeholder, no request
\* ever reaches the call of the provider, none is answered with a style, and
\* each one that ended has an error status and a detail message.
C13_ConfigFailFast ==
    credential # "valid" =>
        \A r \in Requests :
            /\ req[r].calls = 0
            /\ req[r].pc # "responding"
            /\ req[r].pc = "failed" => IsError(req[r].response)

\* C14: a request is answered 200 with a generated_style only when its one
\* call of the provider ended with a well-formed answer, and the style is the
\* generated text; a request whose call failed (exception, error status,
\* malformed or null answer) ends with status 500, a detail message and no
\* generated_style.
C14_AllOrNothing ==
    \A r \in Requests :
        /\ (req[r].response.status = 200
              \/ "generated_style" \in Fields(req[r].response.body)) =>
              /\ req[r].upstream = "ok"
              /\ req[r].calls = 1
              /\ req[r].response.status = 200
              /\ <<"generated_style", GeneratedCss>> \in req[r].response.body
        /\ (Ended(r) /\ req[r].upstream \in UpstreamFailures) =>
              /\ req[r].response.status = 500
              /\ "detail" \in Fields(req[r].response.body)
              /\ "generated_style" \notin Fields(req[r].response.body)

\* C14 witness: one request answered 200 and one whose call ended with an
\* error status, answered 500.
C14_Witness ==
    /\ \E r \in Requests : req[r].pc = "responding" /\ req[r].response.status = 200
    /\ \E r \in Requests :
          req[r].pc = "failed" /\ req[r].upstream = "status" /\ IsError(req[r].response)

\* C15 as stated: in every file the body of a 200 response has the field
\* generated_style and no other.
C15_OnlyGeneratedStyle ==
    \A r \in Requests :
        req[r].response.status = 200 =>
            Fields(req[r].response.body) = {"generated_style"}

\* C15 amended: the body of a 200 response of server-claude.py and of
\* server-or.py has the field generated_style and no other; that of server.py
\* has generated_style and received_prompt, the request's prompt; no file
\* returns html_structure.
C15_OnlyStyleExceptServerPyPrompt ==
    \A r \in Requests :
        req[r].response.status = 200 =>
            IF variant = "server"
            THEN req[r].response.body = {<<"received_prompt", req[r].prompt>>,
                                         <<"generated_style", GeneratedCss>>}
            ELSE req[r].response.body = {<<"generated_style", GeneratedCss>>}

\* C15 witness: server.py answered 200 with the prompt in the body.
C15_Witness ==
    /\ variant = "server"
    /\ \E r \in Requests :
          /\ req[r].response.status = 200
          /\ <<"received_prompt", "make it cyberpunk">> \in req[r].response.body

HasScript(html) ==
    \E i \in 1..Len(html) : html[i].k = "open" /\ LowerChunk(html[i].name) = "script"

\* C16 as stated: the HTML in the prompt of every call of the provider is what
\* the sanitizer makes of the request's html_structure and holds no script
\* open tag.
C16_PromptHoldsSanitizedHtml ==
    \A r \in Requests :
        req[r].calls > 0 =>
            /\ \E v \in Variants :
                  req[r].system_prompt.html
                      = clean_html_for_llm(req[r].html_structure, v, NoFault).html
            /\ ~HasScript(req[r].system_prompt.html)

\* C17 as stated: a request whose snapshot could not be written ends as it
\* would have ended without logging: its call of the provider was made, and
\* when that call gave a well-formed answer the response is 200 with the
\* generated style.
C17_LoggingNeverFailsRequest ==
    \A r \in Requests :
        (Ended(r) /\ req[r].log_error) =>
            /\ req[r].upstream # "none"
            /\ req[r].upstream = "ok" =>
                  req[r].response =
                      [status |-> 200,
                       body |-> SuccessBody(variant, req[r].prompt, GeneratedCss)]

\* A step of the request r.
Step(r) ==
    \/ Receive(r)
    \/ CheckConfig(r)
    \/ Sanitize(r)
    \/ BuildPrompt(r)
    \/ CallGateway(r)
    \/ GatewayReturns(r)
    \/ Finish(r)

\* C18 as stated: while the call of one request is in flight, every other
\* request that has not ended can take a step.
C18_NoRequestBlocksAnother ==
    \A r \in Requests : \A q \in Requests \ {r} :
        (req[r].pc = "generating" /\ req[r].upstream = "in_flight" /\ ~Ended(q))
            => ENABLED Step(q)

\* The stage that may follow a stage of a request.  server.py has no
\* sanitizing stage: its handler goes from the configuration check to the
\* prompt.
Forward(from, to) ==
    \/ from = "pending" /\ to = "received"
    \/ from = "received" /\ to = "sanitizing" /\ variant # "server"
    \/ from = "received" /\ to = "prompting" /\ variant = "server"
    \/ from = "sanitizing" /\ to = "prompting"
    \/ from = "prompting" /\ to = "generating"
    \/ from = "generating" /\ to = "responding"
    \/ from \in {"received", "sanitizing", "prompting", "generating"} /\ to = "failed"

\* C20: every step of every request either leaves its stage alone or moves it
\* to the next stage of received, sanitizing, prompting, generating and then
\* responding, or to failed; a request that is responding or failed never
\* changes again; the provider is called only in the generating stage and at
\* most once per request.
C20_LinearNoRetries ==
    [][\A r \in Requests :
          /\ req'[r].pc # req[r].pc => Forward(req[r].pc, req'[r].pc)
          /\ Ended(r) => req'[r] = req[r]
          /\ req'[r].calls # req[r].calls =>
                /\ req[r].pc = "generating"
                /\ req[r].calls = 0
                /\ req'[r].calls = 1]_vars

\* C20 witness: one request went through every stage to responding and
\* another one failed after its call of the provider failed, each with a
\* single call of the provider.
C20_Witness ==
    \E r, q \in Requests :
        /\ req[r].pc = "responding"
        /\ req[r].calls = 1
        /\ req[r].system_prompt # NoPrompt
        /\ req[q].pc = "failed"
        /\ req[q].upstream \in UpstreamFailures
        /\ req[q].calls = 1

\* C21: every request that was received ends, responding or failed, when the
\* call of the provider returns or fails in the end; in particular no request
\* stays in the generating stage for ever.
C21_EveryRequestEnds ==
    \A r \in Requests :
        /\ (req[r].pc \notin {"pending", "responding", "failed"}) ~> Ended(r)
        /\ (req[r].pc = "generating") ~> (req[r].pc # "generating")

\* C21 witness: both requests were received and both ended, one of them on a
\* call of the provider that failed and the other on one that answered.
C21_Witness ==
    \E r \in Requests : \E q \in Requests \ {r} :
        /\ Ended(r) /\ Ended(q)
        /\ req[r].upstream \in UpstreamFailures
        /\ req[q].upstream = "ok"

\* The snapshots of one kind among the files a request wrote.
Snapshots(r, kind) == {f \in req[r].saved : f.kind = kind}

\* C22 as stated: a request writes an HTML snapshot only with the HTML toggle
\* on, the snapshot holds the sanitizer's result, and it is written before the
\* provider is called (with the toggle on, a request whose call was made has
\* written it); a request writes a CSS snapshot only with the CSS toggle on and
\* only after its call of the provider succeeded; with both toggles off a
\* request writes no file.
C22_LoggingTaps ==
    \A r \in Requests :
        /\ Snapshots(r, "html") # {} => logging.html
        /\ Snapshots(r, "html") \subseteq {HtmlSnapshot(req[r].cleaned_html)}
        /\ (logging.html /\ req[r].calls > 0) => Snapshots(r, "html") # {}
        /\ Snapshots(r, "css") # {} =>
              /\ logging.css
              /\ req[r].upstream = "ok"
              /\ Snapshots(r, "css") = {CssSnapshot(variant, GeneratedCss)}
        /\ (~logging.html /\ ~logging.css) => req[r].saved = {}

(***************************************************************************)
(* Properties of the snapshot files (FileSpec)                             *)
(***************************************************************************)

\* The prompt with every character dropped that is not alphanumeric, a space,
\* an underscore or a hyphen.
RECURSIVE DropOthers(_)
DropOthers(s) ==
    IF s = <<>> THEN <<>>
    ELSE (IF IsAlnum(Head(s)) \/ Head(s) \in {" ", "_", "-"} THEN <<Head(s)>> ELSE <<>>)
             \o DropOthers(Tail(s))

\* At most the first 30 characters.
RECURSIVE Cut(_, _)
Cut(s, n) == IF n = 0 \/ s = <<>> THEN <<>> ELSE <<Head(s)>> \o Cut(Tail(s), n - 1)

\* Without the spaces at its two ends.
RECURSIVE Trimmed(_)
Trimmed(s) ==
    IF s = <<>> THEN <<>>
    ELSE IF Head(s) = " " THEN Trimmed(Tail(s))
    ELSE IF s[Len(s)] = " " THEN Trimmed(SubSeq(s, 1, Len(s) - 1))
    ELSE s

\* Every space replaced by an underscore.
RECURSIVE Underscored(_)
Underscored(s) ==
    IF s = <<>> THEN <<>>
    ELSE <<IF Head(s) = " " THEN "_" ELSE Head(s)>> \o Underscored(Tail(s))

\* Every file name part is at most 30 characters long and holds only
\* alphanumerics, underscores and hyphens.
SafeNames ==
    \A i \in 1..Len(writes) :
        LET name == writes[i].path.safe_prompt
        IN /\ Len(name) <= 30
           /\ \A k \in 1..Len(name) : IsAlnum(name[k]) \/ name[k] \in {"_", "-"}

\* Two calls of one kind in the same second with the same prompt part write
\* the same file; no call fails; every file holds what the last call for it
\* wrote.
LaterOverwrites ==
    /\ \A i \in 1..Len(writes) : \A j \in 1..Len(writes) :
          (/\ writes[i].kind = writes[j].kind
           /\ writes[i].at = writes[j].at
           /\ writes[i].path.safe_prompt = writes[j].path.safe_prompt)
              => writes[i].path = writes[j].path
    /\ DOMAIN disk = {writes[i].path : i \in 1..Len(writes)}
    /\ \A i \in 1..Len(writes) :
          (\A j \in (i + 1)..Len(writes) : writes[j].path # writes[i].path)
              => disk[writes[i].path] = writes[i].wrote

\* C23 as stated: the prompt part of a snapshot's file name is the prompt with
\* the other characters dropped, cut to 30 characters, spaces replaced by
\* underscores; it is at most 30 characters of alphanumerics, underscores and
\* hyphens; calls in the same second with the same prompt part write the same
\* file, the later one replacing the earlier.
C23_FileNameAsStated ==
    /\ \A i \in 1..Len(writes) :
          writes[i].path.safe_prompt = Underscored(Cut(DropOthers(writes[i].prompt), 30))
    /\ SafeNames
    /\ LaterOverwrites

\* C23 amended: as C23, with the spaces at the two ends of the cut prompt
\* removed before the remaining spaces are replaced.
C23_FileNameStripped ==
    /\ \A i \in 1..Len(writes) :
          writes[i].path.safe_prompt =
              Underscored(Trimmed(Cut(DropOthers(writes[i].prompt), 30)))
    /\ SafeNames
    /\ LaterOverwrites

\* C23 witness: a prompt longer than 30 characters whose cut ends in a space
\* and another prompt gave the same file name in the same second, and the file
\* holds what the second call wrote, not what the first one did.
C23_Witness ==
    /\ Len(writes) = 2
    /\ writes[1].prompt # writes[2].prompt
    /\ Len(DropOthers(writes[1].prompt)) > 30
    /\ Cut(DropOthers(writes[1].prompt), 30)[30] = " "
    /\ writes[1].path = writes[2].path
    /\ writes[1].wrote # writes[2].wrote
    /\ DOMAIN disk = {writes[2].path}
    /\ disk[writes[2].path] = writes[2].wrote

====
